---- MODULE Spec2Model ----
(***************************************************************************)
(* talk-plugin-prom (src/index.js): a Prometheus exporter plugin.          *)
(* The model follows the module top to bottom: the startup validation,     *)
(* configurePushgateway and its setInterval callback, the instruments,     *)
(* and the exported hooks (websockets, schemaLevelResolveFunction, app).   *)
(***************************************************************************)
EXTENDS Integers, Sequences, FiniteSets, TLC

VARIABLES
    NODE_ENV,        \* process.env.NODE_ENV
    config,          \* require('./config')
    ROOT_URL,        \* require('config').ROOT_URL
    cluster_worker,  \* cluster.worker: "undefined", or the worker's id
    pc,              \* position of the module load / state of the process
    thrown,          \* message of the error that ended the load or the process
    timer,           \* the setInterval timer of configurePushgateway
    instance,        \* const instance (line 39)
    rootURL,         \* const rootURL (line 36), kept as its hostname
    inflight,        \* gateway.push calls whose callback has not run yet
    lastJob,         \* first argument of the latest gateway.push call
    lastLog,         \* latest line written by console.error / debug
    registered,      \* names of the instruments registered with prom-client
    connectedWebsocketsTotalGauge,
    httpRequestsTotal,
    httpRequestDurationMilliseconds,
    executedGraphQueriesTotalCounter,
    graphQLExecutionTimingsHistogram,
    exported,        \* module.exports has been assigned
    connections,     \* const connections = new Map()
    upgradeReq,      \* connection.upgradeReq.id of every websocket connection
    uuidCount,       \* ids uuid() has handed out
    mounted,         \* the host has called the app hook
    req,             \* the HTTP requests and their responses
    clock,           \* what Date.now() returns
    lastWs,          \* history: the latest websocket event and what it found
    released,        \* history: finished requests the host has let go of
    hookRuns         \* history: what each run of the resolver hook attached

pushVars == <<timer, instance, rootURL, inflight, lastJob, lastLog>>
inputVars == <<NODE_ENV, config, ROOT_URL, cluster_worker>>
loadVars == <<pc, thrown, registered, exported>>
wsVars == <<connectedWebsocketsTotalGauge, connections, upgradeReq, uuidCount, lastWs>>
httpMetrics == <<httpRequestsTotal, httpRequestDurationMilliseconds>>
graphMetrics == <<executedGraphQueriesTotalCounter, graphQLExecutionTimingsHistogram>>
reqVars == <<mounted, req>>
hookVars == <<wsVars, httpMetrics, graphMetrics, reqVars, clock>>
vars == <<NODE_ENV, config, ROOT_URL, cluster_worker, pc, thrown, timer,
          instance, rootURL, inflight, lastJob, lastLog, registered,
          connectedWebsocketsTotalGauge, httpRequestsTotal,
          httpRequestDurationMilliseconds, executedGraphQueriesTotalCounter,
          graphQLExecutionTimingsHistogram, exported, connections, upgradeReq,
          uuidCount, mounted, req, clock, lastWs, released,
          hookRuns>>

----------------------------------------------------------------------------
(* Bounds *)

\* gateway.push calls that may be awaiting their callback at once
MaxInFlight == 2

\* runs of the resolver hook that are kept track of for one request
MaxHookRuns == 2

\* finished requests the host lets go of, making room for new ones
MaxReleased == 2

\* websocket connection objects the host hands to the hooks
NumConns == 2

\* HTTP requests the host serves
NumReqs == 2

----------------------------------------------------------------------------
(* JavaScript values *)

NULL == "null"

\* !v of the values the configuration holds (null or a string)
Falsy(v) == v = NULL \/ v = ""

NoError == "none"
ErrMustSpecify == "must specify at least one of PROM_METRICS_MOUNT_PATH PROM_PUSH_GATEWAY_URL"
ErrInvalidURL == "TypeError [ERR_INVALID_URL]"
ErrWorkerId == "TypeError: Cannot read property 'id' of undefined"
ErrMs == "val is not a non-empty string or a valid number"
ErrMissingJobName == "Missing jobName parameter"

\* os.hostname()
os_hostname == "talk-1"

Envs == {"test", "production"}
Workers == {"undefined", "1"}
RootUrls == {"https://talk.example.com/", "talk.example.com"}
Configs ==
    [PUSH_GATEWAY_URL : {NULL, "http://gateway:9091"},
     PUSH_JOB_NAME : {NULL, "talk"},
     PUSH_FREQUENCY : {NULL, "1s", "2s"},
     METRICS_MOUNT_PATH : {NULL, "/metrics"}]

\* new URL(u).hostname; throws on a string without a scheme
URLHostname(u) ==
    IF u = "https://talk.example.com/"
    THEN [ok |-> TRUE, val |-> "talk.example.com", err |-> NoError]
    ELSE [ok |-> FALSE, val |-> "", err |-> ErrInvalidURL]

\* String(cluster.worker) as string concatenation sees it
WorkerToString(w) == IF w = "undefined" THEN "undefined" ELSE "[object Object]"

\* os.hostname() + cluster.worker ? `#worker.${cluster.worker.id}` : ''
\* (+ binds tighter than ?:, so the condition is the concatenated string)
Instance(hostname, w) ==
    IF (hostname \o WorkerToString(w)) # ""
    THEN IF w = "undefined"
         THEN [ok |-> FALSE, val |-> "", err |-> ErrWorkerId]
         ELSE [ok |-> TRUE, val |-> "#worker." \o w, err |-> NoError]
    ELSE [ok |-> TRUE, val |-> "", err |-> NoError]

\* ms(val): milliseconds of a duration string; throws on a value that is no
\* non-empty string; undefined (n = 0, defined = FALSE) when it does not parse
Ms(val) ==
    IF Falsy(val) THEN [ok |-> FALSE, defined |-> FALSE, n |-> 0, err |-> ErrMs]
    ELSE IF val = "1s" THEN [ok |-> TRUE, defined |-> TRUE, n |-> 1000, err |-> NoError]
    ELSE IF val = "2s" THEN [ok |-> TRUE, defined |-> TRUE, n |-> 2000, err |-> NoError]
    ELSE [ok |-> TRUE, defined |-> FALSE, n |-> 0, err |-> NoError]

\* the delay setInterval uses: 1 when the argument is no number of 1..2^31-1
TimerDelay(m) == IF m.defined /\ m.n >= 1 /\ m.n <= 2147483647 THEN m.n ELSE 1

NoTimer == [armed |-> FALSE, delay |-> 0, elapsed |-> 0]
NoJob == [jobName |-> NULL, instance |-> "", installation_domain |-> ""]

----------------------------------------------------------------------------
(* prom-client instruments *)

GaugeName == "talk_connected_websockets_total"
HttpTotalName == "http_requests_total"
HttpDurationName == "http_request_duration_milliseconds"
GraphTotalName == "talk_executed_graph_queries_total"
GraphTimingsName == "talk_executed_graph_queries_timings"
\* client.collectDefaultMetrics({ prefix: 'talk_' })
DefaultMetrics == {"talk_process_cpu_seconds_total", "talk_nodejs_eventloop_lag_seconds"}

\* buckets: [0.1, 5, 15, 50, 100, 500], in tenths of a millisecond
Buckets == <<1, 50, 150, 500, 1000, 5000>>

\* a series that has had no observation
EmptySeries == [buckets |-> [i \in 1..Len(Buckets) |-> 0], sum |-> 0, count |-> 0]

\* counter.labels(...).inc(): the series is created on its first use
CounterInc(counter, labels) ==
    IF labels \in DOMAIN counter
    THEN [counter EXCEPT ![labels] = @ + 1]
    ELSE counter @@ (labels :> 1)

\* an observation counted in the first bucket that holds it only
SeriesObserveFirstBucketOnly(h, v) ==
    [buckets |-> [i \in 1..Len(Buckets) |->
                    h.buckets[i] +
                        (IF /\ 10 * v <= Buckets[i]
                            /\ \A j \in 1..(i - 1) : 10 * v > Buckets[j]
                         THEN 1 ELSE 0)],
     sum |-> h.sum + v,
     count |-> h.count + 1]

\* what Histogram.observe(v) does to one series, as a scrape reports it
SeriesObserve(h, v) ==
    [buckets |-> [i \in 1..Len(Buckets) |->
                    h.buckets[i] + (IF 10 * v <= Buckets[i] THEN 1 ELSE 0)],
     sum |-> h.sum + v,
     count |-> h.count + 1]

\* histogram.labels(...).observe(v)
HistObserve(hist, labels, v) ==
    IF labels \in DOMAIN hist
    THEN [hist EXCEPT ![labels] = SeriesObserve(@, v)]
    ELSE hist @@ (labels :> SeriesObserve(EmptySeries, v))

\* the value of a counter series in a snapshot (0 when it does not exist yet)
CounterValue(counter, labels) ==
    IF labels \in DOMAIN counter THEN counter[labels] ELSE 0

\* the observation count of a histogram series in a snapshot
HistCount(hist, labels) ==
    IF labels \in DOMAIN hist THEN hist[labels].count ELSE 0

----------------------------------------------------------------------------
(* Values the host hands to the hooks *)

Undefined == "undefined"

\* Date.now() readings, in milliseconds
NowValues == {1000, 1007}

\* Date.now() readings 0, 5, 7, 50, 57, 500, 502 and 507 ms apart, among others
Instants == {1000, 1005, 1007, 1057, 1507}

Conns == 1..NumConns
\* an id the host has put on upgradeReq itself
HostIds == {"host-id"}

Reqs == 1..NumReqs
GraphPath == "/api/v1/graph/ql"
\* req.method and req.baseUrl + req.path of the requests the host serves
RequestLines == {<<"GET", "/">>, <<"POST", "/">>, <<"POST", GraphPath>>}

\* a scrape: a GET of the path the pull endpoint is mounted at when it is
ScrapeLine == <<"GET", "/metrics">>
StatusCodes == {200, 500}

\* (res.statusCode, req.method) of the requests the host can let go of
ReleasedLabels ==
    StatusCodes \X {line[1] : line \in RequestLines}

\* info.operation.name.value and info.operation.operation
Infos ==
    {[name |-> Undefined, operation |-> "query"],
     [name |-> "GetThing", operation |-> "query"],
     [name |-> "GetThing", operation |-> "mutation"]}

\* lodash get(object, path, defaultValue) of a value already looked up
Get(v, default) == IF v = Undefined THEN default ELSE v

NoGraphql == [name |-> Undefined, operation |-> Undefined]

\* client.register.contentType
ContentType == "text/plain; version=0.0.4; charset=utf-8"

\* a response nothing has been written to
NoBody ==
    [contentType |-> "", gauge |-> 0, total |-> << >>, duration |-> << >>,
     queries |-> << >>, timings |-> << >>]

NoReq ==
    [phase |-> "none", method |-> "", path |-> "", now |-> 0, start |-> 0,
     isInstrumented |-> FALSE, graphql |-> NoGraphql, res |-> "open",
     statusCode |-> 200, queue |-> <<>>, body |-> NoBody]

----------------------------------------------------------------------------
(* Module load *)

Init ==
    /\ NODE_ENV \in Envs
    /\ config \in Configs
    /\ ROOT_URL \in RootUrls
    /\ cluster_worker \in Workers
    /\ pc = "validate"
    /\ thrown = NoError
    /\ timer = NoTimer
    /\ instance = ""
    /\ rootURL = ""
    /\ inflight = 0
    /\ lastJob = NoJob
    /\ lastLog = "none"
    /\ registered = {}
    /\ connectedWebsocketsTotalGauge = 0
    /\ httpRequestsTotal = << >>
    /\ httpRequestDurationMilliseconds = << >>
    /\ executedGraphQueriesTotalCounter = << >>
    /\ graphQLExecutionTimingsHistogram = << >>
    /\ exported = FALSE
    /\ connections = << >>
    /\ upgradeReq \in [Conns -> HostIds \cup {Undefined}]
    /\ uuidCount = 0
    /\ mounted = {}
    /\ req = [r \in Reqs |-> NoReq]
    /\ clock = 1000
    /\ lastWs = [op |-> "none", id |-> Undefined, tracked |-> FALSE]
    /\ released = [l \in ReleasedLabels |-> 0]
    /\ hookRuns = [r \in Reqs |-> <<>>]

\* the check of lines 19-23 without its NODE_ENV test
MustSpecifyFailsInTest(env, cfg) ==
    /\ Falsy(cfg.PUSH_GATEWAY_URL)
    /\ Falsy(cfg.METRICS_MOUNT_PATH)

\* the condition of the if of lines 19-23
MustSpecifyFails(env, cfg) ==
    /\ env # "test"
    /\ Falsy(cfg.PUSH_GATEWAY_URL)
    /\ Falsy(cfg.METRICS_MOUNT_PATH)

\* lines 19-27
Validate ==
    /\ pc = "validate"
    /\ IF MustSpecifyFails(NODE_ENV, config)
       THEN pc' = "threw" /\ thrown' = ErrMustSpecify
       ELSE pc' = "configure" /\ thrown' = thrown
    /\ UNCHANGED <<inputVars, released, hookRuns,
                   pushVars, registered, exported, hookVars>>

\* the condition of the if of line 65
PushEnabled(env, cfg) == env # "test" /\ ~Falsy(cfg.PUSH_GATEWAY_URL)

\* lines 29-67: configurePushgateway(), when line 65 calls it
ConfigurePushgateway ==
    /\ pc = "configure"
    /\ IF ~PushEnabled(NODE_ENV, config)
       THEN pc' = "register" /\ UNCHANGED <<thrown, pushVars>>
       ELSE LET u == URLHostname(ROOT_URL)
                i == Instance(os_hostname, cluster_worker)
                m == Ms(config.PUSH_FREQUENCY)
            IN  IF ~u.ok
                THEN pc' = "threw" /\ thrown' = u.err /\ UNCHANGED pushVars
                ELSE IF ~i.ok
                THEN /\ pc' = "threw" /\ thrown' = i.err
                     /\ rootURL' = u.val
                     /\ UNCHANGED <<timer, instance, inflight, lastJob, lastLog>>
                ELSE IF ~m.ok
                THEN /\ pc' = "threw" /\ thrown' = m.err
                     /\ rootURL' = u.val /\ instance' = i.val
                     /\ UNCHANGED <<timer, inflight, lastJob, lastLog>>
                ELSE /\ pc' = "register" /\ thrown' = thrown
                     /\ rootURL' = u.val /\ instance' = i.val
                     /\ timer' = [armed |-> TRUE, delay |-> TimerDelay(m), elapsed |-> 0]
                     /\ lastLog' = "push gateway configured"
                     /\ UNCHANGED <<inflight, lastJob>>
    /\ UNCHANGED <<inputVars, released, hookRuns, registered, exported, hookVars>>

\* lines 69-104: the instruments are created and the gauge is reset
RegisterInstruments ==
    /\ pc = "register"
    /\ pc' = "exports"
    /\ registered' = {GaugeName, HttpTotalName, HttpDurationName, GraphTotalName,
                      GraphTimingsName} \cup DefaultMetrics
    /\ connectedWebsocketsTotalGauge' = 0
    /\ UNCHANGED <<inputVars, released, hookRuns,
                   thrown, pushVars, exported, connections, upgradeReq,
                   uuidCount, lastWs, httpMetrics, graphMetrics, reqVars, clock>>

\* lines 106-226: the connections map and module.exports
Exports ==
    /\ pc = "exports"
    /\ pc' = "loaded"
    /\ connections' = << >>
    /\ exported' = TRUE
    /\ UNCHANGED <<inputVars, released, hookRuns, thrown, pushVars, registered,
                   connectedWebsocketsTotalGauge, upgradeReq, uuidCount, lastWs,
                   httpMetrics, graphMetrics, reqVars, clock>>

----------------------------------------------------------------------------
(* Push dispatcher: the setInterval callback of lines 43-60 *)

\* time passes (half a second at a time) until the timer is due
Advance ==
    /\ pc = "loaded"
    /\ timer.armed
    /\ timer.elapsed < timer.delay
    /\ timer' = [timer EXCEPT !.elapsed = @ + 500]
    /\ UNCHANGED <<inputVars, released, hookRuns,
                   loadVars, instance, rootURL, inflight, lastJob,
                   lastLog, hookVars>>

\* the first argument of gateway.push (lines 45-51)
PushJob ==
    [jobName |-> config.PUSH_JOB_NAME,
     instance |-> instance,
     installation_domain |-> rootURL]

\* a timer callback that skips the tick while a push is in flight
TickSkipIfPushing ==
    /\ pc = "loaded"
    /\ timer.armed
    /\ timer.elapsed >= timer.delay
    /\ inflight < MaxInFlight
    /\ timer' = [timer EXCEPT !.elapsed = 0]
    /\ IF inflight > 0
       THEN UNCHANGED <<pc, thrown, inflight, lastJob>>
       ELSE /\ lastJob' = PushJob
            /\ IF Falsy(PushJob.jobName)
               THEN /\ pc' = "crashed" /\ thrown' = ErrMissingJobName
                    /\ UNCHANGED inflight
               ELSE /\ inflight' = inflight + 1
                    /\ UNCHANGED <<pc, thrown>>
    /\ UNCHANGED <<inputVars, released, hookRuns,
                   registered, exported, instance, rootURL, lastLog,
                   hookVars>>

\* lines 43-51: the timer fires and the callback calls gateway.push, which
\* throws when there is no jobName; nothing catches it in a timer callback
Tick ==
    /\ pc = "loaded"
    /\ timer.armed
    /\ timer.elapsed >= timer.delay
    /\ inflight < MaxInFlight
    /\ timer' = [timer EXCEPT !.elapsed = 0]
    /\ lastJob' = PushJob
    /\ IF Falsy(PushJob.jobName)
       THEN /\ pc' = "crashed" /\ thrown' = ErrMissingJobName
            /\ UNCHANGED inflight
       ELSE /\ inflight' = inflight + 1
            /\ UNCHANGED <<pc, thrown>>
    /\ UNCHANGED <<inputVars, released, hookRuns,
                   registered, exported, instance, rootURL, lastLog,
                   hookVars>>

\* a push callback that throws err instead of logging it
PushCallbackRethrow(err) ==
    /\ pc = "loaded"
    /\ inflight > 0
    /\ inflight' = inflight - 1
    /\ IF err
       THEN /\ pc' = "crashed" /\ thrown' = "error pushing to gateway"
            /\ lastLog' = "error pushing to gateway"
       ELSE /\ lastLog' = "pushed metrics"
            /\ UNCHANGED <<pc, thrown>>
    /\ UNCHANGED <<inputVars, released, hookRuns,
                   registered, exported, timer, instance, rootURL,
                   lastJob, hookVars>>

\* lines 52-58: the callback of one gateway.push call, with or without err
PushCallback(err) ==
    /\ pc = "loaded"
    /\ inflight > 0
    /\ inflight' = inflight - 1
    /\ lastLog' = IF err THEN "error pushing to gateway" ELSE "pushed metrics"
    /\ UNCHANGED <<inputVars, released, hookRuns,
                   loadVars, timer, instance, rootURL, lastJob, hookVars>>

----------------------------------------------------------------------------
(* websockets hooks, lines 112-135 *)

\* uuid(): an id no earlier call has returned
Uuid(n) == "uuid-" \o ToString(n + 1)

\* onConnect counting a connection only when it had to be given an identity
OnConnectCountsNewIdentitiesOnly(c) ==
    /\ pc = "loaded"
    /\ LET had == upgradeReq[c]
           id == IF had = Undefined THEN Uuid(uuidCount) ELSE had
       IN  /\ upgradeReq' = [upgradeReq EXCEPT ![c] = id]
           /\ uuidCount' = IF had = Undefined THEN uuidCount + 1 ELSE uuidCount
           /\ lastWs' = [op |-> "connect", id |-> id,
                         tracked |-> id \in DOMAIN connections]
           /\ IF id \notin DOMAIN connections
              THEN /\ connections' = connections @@ (id :> clock)
                   /\ connectedWebsocketsTotalGauge' =
                        IF had = Undefined THEN connectedWebsocketsTotalGauge + 1
                        ELSE connectedWebsocketsTotalGauge
              ELSE UNCHANGED <<connections, connectedWebsocketsTotalGauge>>
    /\ UNCHANGED <<inputVars, released, hookRuns,
                   loadVars, pushVars, httpMetrics, graphMetrics,
                   reqVars, clock>>

\* onConnect giving every connect event an identity of its own
OnConnectAlwaysFresh(c) ==
    /\ pc = "loaded"
    /\ uuidCount < 2 * NumConns
    /\ LET id == Uuid(uuidCount)
       IN  /\ upgradeReq' = [upgradeReq EXCEPT ![c] = id]
           /\ uuidCount' = uuidCount + 1
           /\ lastWs' = [op |-> "connect", id |-> id, tracked |-> FALSE]
           /\ connections' = connections @@ (id :> clock)
           /\ connectedWebsocketsTotalGauge' = connectedWebsocketsTotalGauge + 1
    /\ UNCHANGED <<inputVars, released, hookRuns,
                   loadVars, pushVars, httpMetrics, graphMetrics,
                   reqVars, clock>>

\* lines 112-126. The time stored in the map is never read back.
OnConnect(c) ==
    /\ pc = "loaded"
    /\ LET had == upgradeReq[c]
           id == IF had = Undefined THEN Uuid(uuidCount) ELSE had
       IN  /\ upgradeReq' = [upgradeReq EXCEPT ![c] = id]
           /\ uuidCount' = IF had = Undefined THEN uuidCount + 1 ELSE uuidCount
           /\ lastWs' = [op |-> "connect", id |-> id,
                         tracked |-> id \in DOMAIN connections]
           /\ IF id \notin DOMAIN connections
              THEN /\ connections' = connections @@ (id :> clock)
                   /\ connectedWebsocketsTotalGauge' = connectedWebsocketsTotalGauge + 1
              ELSE UNCHANGED <<connections, connectedWebsocketsTotalGauge>>
    /\ UNCHANGED <<inputVars, released, hookRuns,
                   loadVars, pushVars, httpMetrics, graphMetrics, reqVars,
                   clock>>

\* connections.delete(id)
MapDelete(map, id) == [k \in DOMAIN map \ {id} |-> map[k]]

\* onDisconnect without the connections.has(id) test of line 130
OnDisconnectUnchecked(c) ==
    /\ pc = "loaded"
    /\ LET id == upgradeReq[c]
       IN  /\ lastWs' = [op |-> "disconnect", id |-> id,
                         tracked |-> id \in DOMAIN connections]
           /\ IF id # Undefined
              THEN /\ connections' = MapDelete(connections, id)
                   /\ connectedWebsocketsTotalGauge' = connectedWebsocketsTotalGauge - 1
              ELSE UNCHANGED <<connections, connectedWebsocketsTotalGauge>>
    /\ UNCHANGED <<inputVars, released, hookRuns,
                   loadVars, pushVars, upgradeReq, uuidCount,
                   httpMetrics, graphMetrics, reqVars, clock>>

\* lines 127-135
OnDisconnect(c) ==
    /\ pc = "loaded"
    /\ LET id == upgradeReq[c]
       IN  /\ lastWs' = [op |-> "disconnect", id |-> id,
                         tracked |-> id \in DOMAIN connections]
           /\ IF id # Undefined /\ id \in DOMAIN connections
              THEN /\ connections' = MapDelete(connections, id)
                   /\ connectedWebsocketsTotalGauge' = connectedWebsocketsTotalGauge - 1
              ELSE UNCHANGED <<connections, connectedWebsocketsTotalGauge>>
    /\ UNCHANGED <<inputVars, released, hookRuns,
                   loadVars, pushVars, upgradeReq, uuidCount,
                   httpMetrics, graphMetrics, reqVars, clock>>

----------------------------------------------------------------------------
(* app hook, lines 169-225, and schemaLevelResolveFunction, lines 139-167 *)

\* lines 169-225: the host mounts the middleware, once
App ==
    /\ pc = "loaded"
    /\ mounted = {}
    /\ mounted' = {"/", GraphPath} \cup
                  (IF Falsy(config.METRICS_MOUNT_PATH) THEN {}
                   ELSE {config.METRICS_MOUNT_PATH})
    /\ UNCHANGED <<inputVars, released, hookRuns,
                   loadVars, pushVars, wsVars, httpMetrics, graphMetrics, req,
                   clock>>

\* lines 170-185: the middleware mounted at '/'
RootMiddleware(r, method, path) ==
    /\ pc = "loaded"
    /\ "/" \in mounted
    /\ req[r].phase = "none"
    /\ req' = [req EXCEPT ![r] = [@ EXCEPT !.phase = "root", !.method = method,
                                          !.path = path, !.now = clock,
                                          !.queue = Append(@, "root")]]
    /\ UNCHANGED <<inputVars, released, hookRuns,
                   loadVars, pushVars, wsVars, httpMetrics, graphMetrics,
                   mounted, clock>>

\* lines 194-200 and 223: the middleware mounted at '/api/v1/graph/ql'
GraphMiddleware(r) ==
    /\ pc = "loaded"
    /\ GraphPath \in mounted
    /\ req[r].phase = "root"
    /\ req[r].path = GraphPath
    /\ req[r].res = "open"
    /\ req' = [req EXCEPT ![r] = [@ EXCEPT !.phase = "graph", !.start = clock,
                                          !.isInstrumented = TRUE,
                                          !.queue = Append(@, "graph")]]
    /\ UNCHANGED <<inputVars, released, hookRuns,
                   loadVars, pushVars, wsVars, httpMetrics, graphMetrics,
                   mounted, clock>>

\* client.register.metrics(): the series of every instrument as they are now
\* (the default metrics, which the plugin never writes, are left out)
RegisterMetrics ==
    [gauge |-> connectedWebsocketsTotalGauge,
     total |-> httpRequestsTotal,
     duration |-> httpRequestDurationMilliseconds,
     queries |-> executedGraphQueriesTotalCounter,
     timings |-> graphQLExecutionTimingsHistogram]

\* what lines 189-190 write to the response
ScrapeBody ==
    [contentType |-> ContentType, gauge |-> RegisterMetrics.gauge,
     total |-> RegisterMetrics.total, duration |-> RegisterMetrics.duration,
     queries |-> RegisterMetrics.queries, timings |-> RegisterMetrics.timings]

\* a handler that also calls client.register.resetMetrics()
MetricsRouteResetting(r) ==
    /\ pc = "loaded"
    /\ req[r].phase = "root"
    /\ req[r].res = "open"
    /\ req[r].method = "GET"
    /\ req[r].path \in mounted \ {"/", GraphPath}
    /\ req' = [req EXCEPT ![r] = [@ EXCEPT !.phase = "metrics", !.body = ScrapeBody]]
    /\ executedGraphQueriesTotalCounter' = << >>
    /\ graphQLExecutionTimingsHistogram' = << >>
    /\ UNCHANGED <<inputVars, released, hookRuns,
                   loadVars, pushVars, wsVars, httpMetrics, mounted, clock>>

\* lines 187-192: the route handler of app.get(config.METRICS_MOUNT_PATH), which
\* a GET of that path reaches after the '/' middleware
MetricsRoute(r) ==
    /\ pc = "loaded"
    /\ req[r].phase = "root"
    /\ req[r].res = "open"
    /\ req[r].method = "GET"
    /\ req[r].path \in mounted \ {"/", GraphPath}
    /\ req' = [req EXCEPT ![r] = [@ EXCEPT !.phase = "metrics", !.body = ScrapeBody]]
    /\ UNCHANGED <<inputVars, released, hookRuns,
                   loadVars, pushVars, wsVars, httpMetrics, graphMetrics,
                   mounted, clock>>

\* lines 155-163: what the hook attaches to ctx.rootParent
Graphql(info) ==
    [name |-> Get(info.name, NULL), operation |-> Get(info.operation, NULL)]

\* a hook keeping the metadata in one place for all the requests in flight
SchemaLevelResolveFunctionShared(r, info) ==
    /\ pc = "loaded"
    /\ req[r].phase = "graph"
    /\ req[r].res = "open"
    /\ req' = [x \in Reqs |->
                 IF req[x].phase = "graph" /\ req[x].res = "open"
                 THEN [req[x] EXCEPT !.graphql = Graphql(info)]
                 ELSE req[x]]
    /\ UNCHANGED <<inputVars, released, loadVars, pushVars, wsVars, httpMetrics,
                   graphMetrics, mounted, clock>>

\* a hook that leaves the metadata an earlier run attached in place
SchemaLevelResolveFunctionFirstWins(r, info) ==
    /\ pc = "loaded"
    /\ req[r].phase = "graph"
    /\ req[r].res = "open"
    /\ req' = [req EXCEPT ![r].graphql =
                 IF @ = NoGraphql THEN Graphql(info) ELSE @]
    /\ UNCHANGED <<inputVars, released, loadVars, pushVars, wsVars, httpMetrics,
                   graphMetrics, mounted, clock>>

\* lines 139-167, called by the host while it executes an operation of request r;
\* the history of its runs is kept by the specification it is part of
SchemaLevelResolveFunction(r, info) ==
    /\ pc = "loaded"
    /\ req[r].phase = "graph"
    /\ req[r].res = "open"
    /\ req' = [req EXCEPT ![r].graphql = Graphql(info)]
    /\ UNCHANGED <<inputVars, released,
                   loadVars, pushVars, wsVars, httpMetrics, graphMetrics,
                   mounted, clock>>

\* the instruments the two completion callbacks write
Metrics ==
    [total |-> httpRequestsTotal, duration |-> httpRequestDurationMilliseconds,
     queries |-> executedGraphQueriesTotalCounter,
     timings |-> graphQLExecutionTimingsHistogram]

\* a callback that writes back the count it read when the request came in
\* (none yet for its series), losing the increments made since
RootFinishedStaleCount(m, rq, now) ==
    [m EXCEPT !.total = (<<rq.statusCode, rq.method>> :> 1) @@ @,
              !.duration = HistObserve(@, <<rq.method, rq.path>>, now - rq.now)]

\* lines 173-181: the callback of the '/' middleware
RootFinished(m, rq, now) ==
    [m EXCEPT !.total = CounterInc(@, <<rq.statusCode, rq.method>>),
              !.duration = HistObserve(@, <<rq.method, rq.path>>, now - rq.now)]

\* line 211 testing the operation alone
NothingToRecordOperationOnly(g) == Falsy(g.operation)

\* line 211: the callback returns before it records anything
NothingToRecord(g) == Falsy(g.name) \/ Falsy(g.operation)

\* the callback of the graph middleware without the return of lines 211-213
GraphFinishedUnguarded(m, rq, now) ==
    LET g == [name |-> Get(rq.graphql.name, NULL),
              operation |-> Get(rq.graphql.operation, NULL)]
    IN  [m EXCEPT !.queries = CounterInc(@, <<g.operation, g.name>>),
                  !.timings = HistObserve(@, <<g.operation, g.name>>, now - rq.start)]

\* the callback giving the label values in the order (name, operation)
GraphFinishedLabelsSwapped(m, rq, now) ==
    LET g == [name |-> Get(rq.graphql.name, NULL),
              operation |-> Get(rq.graphql.operation, NULL)]
    IN  IF NothingToRecord(g)
        THEN m
        ELSE [m EXCEPT !.queries = CounterInc(@, <<g.name, g.operation>>),
                       !.timings = HistObserve(@, <<g.name, g.operation>>, now - rq.start)]

\* the callback without the observation of line 219
GraphFinishedCounterOnly(m, rq, now) ==
    LET g == [name |-> Get(rq.graphql.name, NULL),
              operation |-> Get(rq.graphql.operation, NULL)]
    IN  IF NothingToRecord(g)
        THEN m
        ELSE [m EXCEPT !.queries = CounterInc(@, <<g.operation, g.name>>)]

\* lines 201-221: the callback of the graph middleware
GraphFinished(m, rq, now) ==
    LET g == [name |-> Get(rq.graphql.name, NULL),
              operation |-> Get(rq.graphql.operation, NULL)]
    IN  IF NothingToRecord(g)
        THEN m
        ELSE [m EXCEPT !.queries = CounterInc(@, <<g.operation, g.name>>),
                       !.timings = HistObserve(@, <<g.operation, g.name>>, now - rq.start)]

\* on-finished runs the callbacks queued on a response in the order they were added
RECURSIVE RunQueue(_, _, _, _)
RunQueue(q, m, rq, now) ==
    IF q = <<>> THEN m
    ELSE RunQueue(Tail(q),
                  IF Head(q) = "root" THEN RootFinished(m, rq, now)
                  ELSE GraphFinished(m, rq, now),
                  rq, now)

\* callbacks that stay queued after an event has run them
QueueKept(q) == q

\* lines 173 and 201, onFinished(res, ...): the queue of a response is dropped
\* when its first event runs it
QueueAfterEvent(q) == <<>>

\* an event of the response of request r ('finish', 'end', 'close' or 'error',
\* any number of them): the first one finishes the response, with the status
\* code it has by then (the metrics route leaves it at 200)
ResponseEvent(r, statusCode) ==
    /\ pc = "loaded"
    /\ req[r].phase # "none"
    /\ req[r].phase = "metrics" => statusCode = 200
    /\ LET code == IF req[r].res = "open" THEN statusCode ELSE req[r].statusCode
           rq == [req[r] EXCEPT !.statusCode = code]
           m == RunQueue(rq.queue, Metrics, rq, clock)
       IN  /\ req' = [req EXCEPT ![r] =
                        [rq EXCEPT !.res = "finished",
                                   !.queue = QueueAfterEvent(@)]]
           /\ httpRequestsTotal' = m.total
           /\ httpRequestDurationMilliseconds' = m.duration
           /\ executedGraphQueriesTotalCounter' = m.queries
           /\ graphQLExecutionTimingsHistogram' = m.timings
    /\ UNCHANGED <<inputVars, released, hookRuns,
                   loadVars, pushVars, wsVars, mounted, clock>>

\* how many requests the host has let go of
RECURSIVE ReleasedIn(_)
ReleasedIn(labels) ==
    IF labels = {} THEN 0
    ELSE LET l == CHOOSE x \in labels : TRUE
         IN  released[l] + ReleasedIn(labels \ {l})

\* the host is done with a request whose response has finished: req and res are
\* garbage, and a later request starts from fresh objects
Release(r) ==
    /\ pc = "loaded"
    /\ req[r].phase # "none"
    /\ req[r].res = "finished"
    /\ <<req[r].statusCode, req[r].method>> \in ReleasedLabels
    /\ ReleasedIn(ReleasedLabels) < MaxReleased
    /\ req' = [req EXCEPT ![r] = NoReq]
    /\ released' = [released EXCEPT ![<<req[r].statusCode, req[r].method>>] = @ + 1]
    /\ hookRuns' = [hookRuns EXCEPT ![r] = <<>>]
    /\ UNCHANGED <<inputVars, loadVars, pushVars, wsVars, httpMetrics, graphMetrics,
                   mounted, clock>>

----------------------------------------------------------------------------
(* Specifications *)

\* the wall clock moves on to one of the given instants
Elapse(instants) ==
    /\ pc = "loaded"
    /\ \E t \in instants : t > clock /\ clock' = t
    /\ UNCHANGED <<inputVars, released, hookRuns,
                   loadVars, pushVars, wsVars, httpMetrics,
                   graphMetrics, reqVars>>

\* the wall clock moves on
Tock ==
    /\ pc = "loaded"
    /\ \E t \in NowValues : t > clock /\ clock' = t
    /\ UNCHANGED <<inputVars, released, hookRuns,
                   loadVars, pushVars, wsVars, httpMetrics, graphMetrics,
                   reqVars>>

Load == Validate \/ ConfigurePushgateway \/ RegisterInstruments \/ Exports

Dispatcher == Advance \/ Tick \/ PushCallback(TRUE) \/ PushCallback(FALSE)

Websockets ==
    \/ \E c \in Conns : OnConnect(c)
    \/ \E c \in Conns : OnDisconnect(c)

\* requests with one of the given request lines arrive
Arrivals(lines) ==
    \E r \in Reqs, line \in lines : RootMiddleware(r, line[1], line[2])

\* the same, two requests at most
ArrivalsOfTwo(lines) ==
    \E r \in {1, 2}, line \in lines : RootMiddleware(r, line[1], line[2])

\* the same, one request at a time
ArrivalsInTurn(lines) ==
    \E line \in lines : RootMiddleware(1, line[1], line[2])

Completions ==
    \E r \in Reqs, statusCode \in StatusCodes : ResponseEvent(r, statusCode)

\* the hook runs, any number of times for a request
Hooks ==
    \E r \in Reqs, info \in Infos :
        SchemaLevelResolveFunction(r, info) /\ UNCHANGED hookRuns

\* the same with the runs for each request on record, while there are few
HooksOnRecord ==
    \E r \in Reqs, info \in Infos :
        /\ Len(hookRuns[r]) < MaxHookRuns
        /\ SchemaLevelResolveFunction(r, info)
        /\ hookRuns' = [hookRuns EXCEPT ![r] = Append(@, Graphql(info))]

RequestSteps ==
    \/ App
    \/ \E r \in Reqs : GraphMiddleware(r)
    \/ Hooks
    \/ Completions

Scrapes == \E r \in Reqs : MetricsRoute(r)

Releases == \E r \in Reqs : Release(r)

Requests ==
    RequestSteps \/ Arrivals(RequestLines \cup {ScrapeLine}) \/ Scrapes \/ Releases

Next == Load \/ Dispatcher \/ Websockets \/ Requests \/ Tock

\* the whole plugin
Spec == Init /\ [][Next]_vars

\* The hooks read nothing the dispatcher writes and the dispatcher reads
\* nothing the hooks write, so each part is also explored on its own: the load
\* with the dispatcher and with the websocket hooks from every configuration,
\* the request hooks in a production worker that pushes, with and without the
\* pull endpoint (the one setting they read).
NextPush == Load \/ Dispatcher
SpecPush == Init /\ [][NextPush]_vars

NextWS == Load \/ Websockets \/ Tock
SpecWS == Init /\ [][NextWS]_vars

InitReq ==
    /\ Init
    /\ NODE_ENV = "production"
    /\ config.PUSH_GATEWAY_URL = "http://gateway:9091"
    /\ config.PUSH_JOB_NAME = "talk"
    /\ config.PUSH_FREQUENCY = "2s"
    /\ ROOT_URL = "https://talk.example.com/"
    /\ cluster_worker = "1"
    /\ \A c \in Conns : upgradeReq[c] = Undefined
NextReq == Load \/ RequestSteps \/ Arrivals(RequestLines) \/ Tock
SpecReq == InitReq /\ [][NextReq]_vars

\* the pull endpoint: scrapes among GraphQL requests, same configurations
NextScrape ==
    Load \/ RequestSteps \/ Arrivals({ScrapeLine, <<"POST", GraphPath>>}) \/ Scrapes \/ Tock
SpecScrape == InitReq /\ [][NextScrape]_vars

\* the '/' middleware alone, over more requests than are in flight at once
NextHttp ==
    Load \/ App \/ Arrivals({<<"GET", "/">>, <<"POST", "/">>}) \/ Completions
         \/ Releases \/ Tock
SpecHttp == InitReq /\ [][NextHttp]_vars

\* the histograms: GraphQL requests one after the other, each taking one of
\* the durations that lie between these instants
NextObserve ==
    Load \/ RequestSteps \/ ArrivalsInTurn({<<"POST", GraphPath>>}) \/ Releases
         \/ Elapse(Instants)
SpecObserve == InitReq /\ [][NextObserve]_vars

\* the resolver hook running once, again and again for two GraphQL requests
NextHooks ==
    \/ Load
    \/ App
    \/ ArrivalsOfTwo({<<"POST", GraphPath>>})
    \/ \E r \in Reqs : GraphMiddleware(r)
    \/ HooksOnRecord
    \/ Completions
    \/ Tock
SpecHooks == InitReq /\ [][NextHooks]_vars

----------------------------------------------------------------------------
(* Properties *)

\* the step finishes the response of request r, which runs its callbacks
Completes(r) == req[r].phase # "none" /\ req[r].res = "open" /\ req'[r].res = "finished"

\* the requests whose response has finished
Finished == {r \in Reqs : req[r].phase # "none" /\ req[r].res = "finished"}

\* the timer fires in this step
IsTick == timer.armed /\ timer.elapsed >= timer.delay /\ timer'.elapsed = 0

\* C1: a connect of an identity that is already tracked changes neither the
\* gauge nor the map, a connect of an untracked one adds 1 and tracks it; a
\* disconnect of a tracked identity subtracts 1 and forgets it, and a
\* disconnect of an untracked identity, or of no identity, changes neither.
C1_WebsocketEvents ==
    [][\A c \in Conns :
        /\ OnConnect(c) =>
             LET id == upgradeReq'[c]
             IN  /\ id # Undefined
                 /\ IF id \in DOMAIN connections
                    THEN /\ connectedWebsocketsTotalGauge' = connectedWebsocketsTotalGauge
                         /\ connections' = connections
                    ELSE /\ connectedWebsocketsTotalGauge' = connectedWebsocketsTotalGauge + 1
                         /\ DOMAIN connections' = DOMAIN connections \cup {id}
        /\ OnDisconnect(c) =>
             LET id == upgradeReq[c]
             IN  IF id # Undefined /\ id \in DOMAIN connections
                 THEN /\ connectedWebsocketsTotalGauge' = connectedWebsocketsTotalGauge - 1
                      /\ DOMAIN connections' = DOMAIN connections \ {id}
                 ELSE /\ connectedWebsocketsTotalGauge' = connectedWebsocketsTotalGauge
                      /\ connections' = connections]_vars

\* a second connect of a tracked identity has just run and the gauge is still 1
C1_Witness ==
    /\ lastWs.op = "connect"
    /\ lastWs.tracked
    /\ connectedWebsocketsTotalGauge = 1
    /\ \E c1, c2 \in Conns : c1 # c2 /\ upgradeReq[c1] = lastWs.id
                             /\ upgradeReq[c2] = lastWs.id

\* the label tuples the GraphQL instruments can be given
GraphLabels == {<<o, n>> : o \in {NULL, "query", "mutation"}, n \in {NULL, "GetThing"}}

\* the finished requests on which the hook attached (operation, name) = l
Attached(l) ==
    {r \in Finished : /\ req[r].phase = "graph"
                      /\ req[r].graphql # NoGraphql
                      /\ <<req[r].graphql.operation, req[r].graphql.name>> = l}

\* C2 as stated: every finished request the hook attached metadata to, an
\* anonymous operation included, has added 1 to the operation counter and one
\* observation to the timings histogram under its (kind, name).
C2_EveryAttachedOperationRecorded ==
    \A l \in GraphLabels :
        /\ CounterValue(executedGraphQueriesTotalCounter, l) = Cardinality(Attached(l))
        /\ HistCount(graphQLExecutionTimingsHistogram, l) = Cardinality(Attached(l))

\* C2 amended: every finished request the hook attached a kind and a non-empty
\* name to has added exactly 1 to the operation counter and exactly one
\* observation to the timings histogram under its (kind, name); an anonymous
\* operation (name null) is not recorded at all.
C2_NamedOperationsRecorded ==
    /\ DOMAIN executedGraphQueriesTotalCounter \subseteq GraphLabels
    /\ DOMAIN graphQLExecutionTimingsHistogram \subseteq GraphLabels
    /\ \A l \in GraphLabels :
        LET n == IF l[1] = NULL \/ l[2] = NULL THEN 0 ELSE Cardinality(Attached(l))
        IN  /\ CounterValue(executedGraphQueriesTotalCounter, l) = n
            /\ HistCount(graphQLExecutionTimingsHistogram, l) = n

\* an anonymous and a named operation have both finished
C2_Witness ==
    /\ Attached(<<"query", NULL>>) # {}
    /\ Attached(<<"query", "GetThing">>) # {}
    /\ CounterValue(executedGraphQueriesTotalCounter, <<"query", "GetThing">>) = 1

\* C3: the completion of a request no hook attached metadata to changes no
\* series of the GraphQL counter or histogram and leaves the process running.
C3_NoMetadataNothingRecorded ==
    [][\A r \in Reqs :
        (Completes(r) /\ req[r].graphql = NoGraphql)
            => /\ executedGraphQueriesTotalCounter' = executedGraphQueriesTotalCounter
               /\ graphQLExecutionTimingsHistogram' = graphQLExecutionTimingsHistogram
               /\ pc' = "loaded" /\ thrown' = NoError]_vars

\* a request went through the graph middleware and finished without the hook
C3_Witness ==
    \E r \in Finished :
        /\ req[r].phase = "graph"
        /\ req[r].graphql = NoGraphql
        /\ req[r].queue = <<>>
        /\ executedGraphQueriesTotalCounter = << >>

\* the label tuples of http_requests_total and of the duration histogram
HttpTotalLabels == {<<code, line[1]>> : code \in StatusCodes, line \in RequestLines}
HttpDurationLabels == {<<line[1], line[2]>> : line \in RequestLines}

\* C4: every series of the request counter counts the finished requests with
\* its status code and method, and every series of the duration histogram has
\* one observation for each finished request with its method and route: one
\* for each finished request, none for a request still open, never two.
C4_OncePerFinishedRequest ==
    /\ DOMAIN httpRequestsTotal \subseteq HttpTotalLabels
    /\ DOMAIN httpRequestDurationMilliseconds \subseteq HttpDurationLabels
    /\ \A l \in HttpTotalLabels :
        CounterValue(httpRequestsTotal, l) =
            Cardinality({r \in Finished : <<req[r].statusCode, req[r].method>> = l})
    /\ \A l \in HttpDurationLabels :
        HistCount(httpRequestDurationMilliseconds, l) =
            Cardinality({r \in Finished : <<req[r].method, req[r].path>> = l})

\* one request has finished with an error status while another is still open
C4_Witness ==
    \E r1, r2 \in Reqs :
        /\ r1 \in Finished /\ req[r1].statusCode = 500
        /\ req[r2].phase # "none" /\ req[r2].res = "open"
        /\ httpRequestsTotal[<<500, req[r1].method>>] = 1

\* C5: the callback of a failed push logs the error and does nothing else:
\* the process keeps running, nothing is thrown and the timer is as it was,
\* and after a logged failure the timer is still armed with the configured
\* interval and fires when due.
C5_PushFailureIsolated ==
    /\ [][PushCallback(TRUE) =>
            /\ pc' = "loaded" /\ thrown' = NoError
            /\ timer' = timer /\ timer'.armed
            /\ lastLog' = "error pushing to gateway"]_vars
    /\ []((pc = "loaded" /\ lastLog = "error pushing to gateway") =>
            /\ timer.armed
            /\ timer.delay = Ms(config.PUSH_FREQUENCY).n
            /\ (timer.elapsed >= timer.delay /\ inflight < MaxInFlight) => ENABLED Tick)

\* a push failed, the process runs and a push is in flight again
C5_Witness ==
    /\ lastLog = "error pushing to gateway"
    /\ pc = "loaded"
    /\ timer.armed
    /\ inflight > 0

\* C6 as stated: at most one push is in flight at any time.
C6_AtMostOneInFlight == inflight <= 1

\* C6 amended: no tick is skipped. Every tick calls gateway.push whether or
\* not earlier pushes have completed, so pushes may overlap: a tick adds one
\* push in flight (or, without a job name, throws: see C8).
C6_EveryTickPushes ==
    [][IsTick =>
        IF Falsy(config.PUSH_JOB_NAME)
        THEN pc' = "crashed"
        ELSE inflight' = inflight + 1 /\ lastJob' = PushJob]_vars

\* two pushes are in flight at once
C6_Witness == inflight = 2 /\ pc = "loaded"

\* C7: with neither PUSH_GATEWAY_URL nor METRICS_MOUNT_PATH set and outside
\* test mode, the load goes no further than the check: nothing is registered,
\* armed or exported; and the check throws in no other case.
C7_FailFastWithoutTarget ==
    LET neither == Falsy(config.PUSH_GATEWAY_URL) /\ Falsy(config.METRICS_MOUNT_PATH)
    IN  /\ (neither /\ NODE_ENV # "test") =>
              /\ pc \in {"validate", "threw"}
              /\ pc = "threw" => thrown = ErrMustSpecify
              /\ registered = {} /\ ~timer.armed /\ ~exported
        /\ (~neither \/ NODE_ENV = "test") =>
              /\ thrown # ErrMustSpecify
              /\ pc = "threw" => PushEnabled(NODE_ENV, config)

\* the check has thrown
C7_Witness == pc = "threw" /\ thrown = ErrMustSpecify /\ registered = {}

\* C8 as stated: with a gateway URL but no job name or no frequency, the load
\* fails: the timer is never armed and no tick runs without a job name.
C8_MissingPushParameterFailsAtStartup ==
    (PushEnabled(NODE_ENV, config)
       /\ (Falsy(config.PUSH_JOB_NAME) \/ Falsy(config.PUSH_FREQUENCY)))
    => /\ ~timer.armed
       /\ pc \in {"validate", "configure", "threw"}
       /\ thrown # ErrMissingJobName

\* C9 as stated: the dispatcher starts idle, a timer is armed only with a
\* gateway URL, without one nothing is ever pushed, and once armed every tick
\* starts a push and every push callback leaves the dispatcher scheduled.
C9_DispatcherStates ==
    /\ [](pc = "validate" => ~timer.armed /\ inflight = 0)
    /\ [](timer.armed => ~Falsy(config.PUSH_GATEWAY_URL))
    /\ [](Falsy(config.PUSH_GATEWAY_URL) => ~timer.armed /\ inflight = 0 /\ lastJob = NoJob)
    /\ [][IsTick => inflight' > 0 /\ timer'.armed /\ pc' = "loaded"]_vars
    /\ [][inflight' < inflight => timer'.armed /\ pc' = "loaded"]_vars

\* the instance label C10 describes
HostIdentity ==
    IF cluster_worker = "undefined" THEN os_hostname
    ELSE os_hostname \o "#worker." \o cluster_worker

\* C10 as stated: computing the instance label never fails, and the label,
\* also on every push, is the hostname, with the worker id appended in a worker.
C10_InstanceIsHostIdentity ==
    /\ thrown # ErrWorkerId
    /\ timer.armed => instance = HostIdentity
    /\ lastJob # NoJob => lastJob.instance = HostIdentity

----------------------------------------------------------------------------
\* the routes app.get has registered
Routes == mounted \ {"/", GraphPath}

\* request r is a GET of the configured mount path that has passed the '/'
\* middleware and whose response is still open
AwaitsScrape(r) ==
    /\ req[r].phase = "root"
    /\ req[r].res = "open"
    /\ req[r].method = "GET"
    /\ req[r].path = config.METRICS_MOUNT_PATH

\* the step serves the scrape of request r
Serves(r) == req[r].phase = "root" /\ req'[r].phase = "metrics"

\* C11: once the application is instrumented the pull endpoint is a route
\* exactly when METRICS_MOUNT_PATH is configured, and then at that path; while
\* it is, every GET of the path that has come in can be served, whatever else
\* is in flight; serving writes the content type and the series as they are at
\* that moment to the response, the response finishes with status 200, and
\* neither serving nor finishing a scrape changes a series of the GraphQL
\* instruments or the websocket gauge and map.
C11_PullEndpoint ==
    /\ [](mounted # {} =>
            /\ Routes = IF Falsy(config.METRICS_MOUNT_PATH) THEN {}
                        ELSE {config.METRICS_MOUNT_PATH}
            /\ \A r \in Reqs :
                  AwaitsScrape(r) /\ Routes # {} => ENABLED MetricsRoute(r))
    /\ [][\A r \in Reqs :
            /\ Serves(r) =>
                 /\ req'[r].body.contentType = ContentType
                 /\ req'[r].body.gauge = connectedWebsocketsTotalGauge
                 /\ req'[r].body.total = httpRequestsTotal
                 /\ req'[r].body.duration = httpRequestDurationMilliseconds
                 /\ req'[r].body.queries = executedGraphQueriesTotalCounter
                 /\ req'[r].body.timings = graphQLExecutionTimingsHistogram
                 /\ UNCHANGED <<graphMetrics, wsVars>>
            /\ Completes(r) /\ req[r].phase = "metrics" =>
                 /\ req'[r].statusCode = 200
                 /\ UNCHANGED <<graphMetrics, wsVars>>]_vars

\* a scrape that came in while a GraphQL request was in flight has been served
\* after that request completed, with the series it recorded in the snapshot
C11_Witness ==
    \E r \in Reqs :
        /\ req[r].phase = "metrics"
        /\ req[r].now = 1000
        /\ req[r].body.queries = executedGraphQueriesTotalCounter
        /\ \E l \in DOMAIN req[r].body.timings : req[r].body.timings[l].sum = 7


----------------------------------------------------------------------------
\* the (kind, name) the hook attached to request r, <<>> when there is nothing
\* to record for it
RecordedAs(r) ==
    IF /\ req[r].phase = "graph"
       /\ req[r].graphql.operation \notin {Undefined, NULL, ""}
       /\ req[r].graphql.name \notin {Undefined, NULL, ""}
    THEN <<req[r].graphql.operation, req[r].graphql.name>>
    ELSE <<>>

\* every key that is a series of counter or histogram before or after the step
GraphSeries ==
    DOMAIN executedGraphQueriesTotalCounter \cup DOMAIN executedGraphQueriesTotalCounter'
    \cup DOMAIN graphQLExecutionTimingsHistogram \cup DOMAIN graphQLExecutionTimingsHistogram'

\* C12: the completion of a request the hook attached (kind, name) to adds
\* exactly 1 to the series (kind, name) of the operation counter and one
\* observation to that series of the timings histogram, and changes no other
\* series of either, nor the websocket gauge and map; a completion with
\* nothing to record changes none of them.
C12_OnlyOwnSeriesChanges ==
    [][\A r \in Reqs : Completes(r) =>
        /\ \A k \in GraphLabels \cup GraphSeries :
              IF k = RecordedAs(r)
              THEN /\ CounterValue(executedGraphQueriesTotalCounter', k) =
                        CounterValue(executedGraphQueriesTotalCounter, k) + 1
                   /\ HistCount(graphQLExecutionTimingsHistogram', k) =
                        HistCount(graphQLExecutionTimingsHistogram, k) + 1
              ELSE /\ CounterValue(executedGraphQueriesTotalCounter', k) =
                        CounterValue(executedGraphQueriesTotalCounter, k)
                   /\ k \in DOMAIN graphQLExecutionTimingsHistogram' <=>
                        k \in DOMAIN graphQLExecutionTimingsHistogram
                   /\ k \in DOMAIN graphQLExecutionTimingsHistogram =>
                        graphQLExecutionTimingsHistogram'[k] =
                            graphQLExecutionTimingsHistogram[k]
        /\ connectedWebsocketsTotalGauge' = connectedWebsocketsTotalGauge
        /\ connections' = connections]_vars

\* the query GetThing has completed next to the mutation GetThing: each has
\* its own series, at 1
C12_Witness ==
    /\ \E r \in Finished : RecordedAs(r) = <<"query", "GetThing">>
    /\ \E r \in Finished : RecordedAs(r) = <<"mutation", "GetThing">>
    /\ CounterValue(executedGraphQueriesTotalCounter, <<"query", "GetThing">>) = 1
    /\ CounterValue(executedGraphQueriesTotalCounter, <<"mutation", "GetThing">>) = 1


----------------------------------------------------------------------------
\* the requests that have completed with status code and method l: those the
\* host has let go of and those whose objects are still around
CompletedWith(l) ==
    released[l] + Cardinality({r \in Finished : <<req[r].statusCode, req[r].method>> = l})

\* C13: whatever the order in which requests came in and completed, every
\* series (code, method) of http_requests_total equals the number of requests
\* that have completed with that status code and method, and there is no
\* series for any other labels.
C13_RequestCounterIsCompletions ==
    /\ DOMAIN httpRequestsTotal \subseteq ReleasedLabels
    /\ \A l \in ReleasedLabels :
          CounterValue(httpRequestsTotal, l) = CompletedWith(l)

\* three GET requests have completed with status 200 and one with status 500
C13_Witness ==
    /\ CompletedWith(<<200, "GET">>) = 3
    /\ CompletedWith(<<500, "GET">>) = 1
    /\ httpRequestsTotal = (<<200, "GET">> :> 3) @@ (<<500, "GET">> :> 1)


----------------------------------------------------------------------------
\* the series of a histogram under the given labels, observed or not
SeriesOf(hist, labels) ==
    IF labels \in DOMAIN hist THEN hist[labels] ELSE EmptySeries

\* series after is series before plus one observation of v milliseconds: every
\* bucket whose bound is at least v has one more, every other bucket has what
\* it had, the count has one more and the sum has v more
OneMoreObservation(before, after, v) ==
    /\ \A i \in 1..Len(Buckets) :
          after.buckets[i] =
              IF Buckets[i] >= 10 * v THEN before.buckets[i] + 1 ELSE before.buckets[i]
    /\ after.count = before.count + 1
    /\ after.sum = before.sum + v

\* the buckets of a series never decrease from one bound to the next, and none
\* exceeds the count, which is what the +Inf bucket reports
Cumulative(series) ==
    /\ \A i \in 1..(Len(Buckets) - 1) : series.buckets[i] <= series.buckets[i + 1]
    /\ series.buckets[Len(Buckets)] <= series.count

\* C14: the observation a completing request makes in the duration histogram,
\* and in the timings histogram when its operation is recorded, adds 1 to
\* every bucket whose bound is at least the observed value and to no other
\* bucket, adds 1 to the count and the value to the sum; in every state the
\* buckets of every series are non-decreasing in bound order and bounded by
\* the count.
C14_HistogramObservation ==
    /\ [][\A r \in Reqs : Completes(r) =>
            /\ OneMoreObservation(
                   SeriesOf(httpRequestDurationMilliseconds, <<req[r].method, req[r].path>>),
                   SeriesOf(httpRequestDurationMilliseconds', <<req[r].method, req[r].path>>),
                   clock - req[r].now)
            /\ RecordedAs(r) # <<>> =>
                 OneMoreObservation(
                     SeriesOf(graphQLExecutionTimingsHistogram, RecordedAs(r)),
                     SeriesOf(graphQLExecutionTimingsHistogram', RecordedAs(r)),
                     clock - req[r].start)]_vars
    /\ [](/\ \A l \in DOMAIN httpRequestDurationMilliseconds :
                Cumulative(httpRequestDurationMilliseconds[l])
           /\ \A k \in DOMAIN graphQLExecutionTimingsHistogram :
                Cumulative(graphQLExecutionTimingsHistogram[k]))

\* a recorded operation took 7 ms, which put 0, 0, 1, 1, 1, 1 in the buckets of
\* its timings series, with count 1 and sum 7; with the requests of 50 and
\* 450 ms after it, the duration series of the route has 0, 0, 1, 2, 2, 3
C14_Witness ==
    /\ \E l \in DOMAIN graphQLExecutionTimingsHistogram :
          /\ graphQLExecutionTimingsHistogram[l].buckets = <<0, 0, 1, 1, 1, 1>>
          /\ graphQLExecutionTimingsHistogram[l].count = 1
          /\ graphQLExecutionTimingsHistogram[l].sum = 7
    /\ \E k \in DOMAIN httpRequestDurationMilliseconds :
          /\ httpRequestDurationMilliseconds[k].buckets = <<0, 0, 1, 2, 2, 3>>
          /\ httpRequestDurationMilliseconds[k].count = 3
          /\ httpRequestDurationMilliseconds[k].sum = 507


----------------------------------------------------------------------------
\* C15: in every state the gauge is the number of identities in the
\* connections map, so it is never negative, and the identity of the latest
\* connect event is in the map and counted, whether it is new or had
\* disconnected before.
C15_GaugeIsMapSize ==
    /\ connectedWebsocketsTotalGauge = Cardinality(DOMAIN connections)
    /\ connectedWebsocketsTotalGauge >= 0
    /\ lastWs.op = "connect" => lastWs.id \in DOMAIN connections

\* the first identity handed out has connected again after the second one was
\* handed out, found untracked, and both are counted
C15_Witness ==
    /\ uuidCount = 2
    /\ lastWs = [op |-> "connect", id |-> Uuid(0), tracked |-> FALSE]
    /\ DOMAIN connections = {Uuid(0), Uuid(1)}
    /\ connectedWebsocketsTotalGauge = 2

\* the identities connections carry or the map tracks
KnownIds == {upgradeReq[c] : c \in Conns} \cup DOMAIN connections

\* C16: a connect event of a connection that carries an identity leaves it
\* the identity it has, and one of a connection without identity gives it an
\* identity no connection carries and the map does not track; either way the
\* identity is tracked afterwards and no other connection's identity changes;
\* and no event ever replaces or removes the identity a connection carries, so
\* every later connect of the connection resolves to it.
C16_IdentityAssignedOnce ==
    /\ [][\A c \in Conns : OnConnect(c) =>
            /\ IF upgradeReq[c] # Undefined
               THEN upgradeReq'[c] = upgradeReq[c]
               ELSE upgradeReq'[c] \notin KnownIds
            /\ upgradeReq'[c] # Undefined
            /\ upgradeReq'[c] \in DOMAIN connections'
            /\ \A o \in Conns \ {c} : upgradeReq'[o] = upgradeReq[o]]_vars
    /\ [][\A c \in Conns :
            upgradeReq[c] # Undefined => upgradeReq'[c] = upgradeReq[c]]_vars

\* a connection that was given an identity has had another connect event,
\* which found that identity tracked, next to a connection that brought its own
C16_Witness ==
    \E c, o \in Conns :
        /\ upgradeReq[c] = Uuid(0)
        /\ upgradeReq[o] \in HostIds
        /\ uuidCount = 1
        /\ lastWs = [op |-> "connect", id |-> Uuid(0), tracked |-> TRUE]
        /\ Uuid(0) \in DOMAIN connections


----------------------------------------------------------------------------
\* in the given series of the counter and of the histogram, every label tuple
\* has as many observations as the counter says
Paired(queries, timings) ==
    \A l \in DOMAIN queries \cup DOMAIN timings :
        CounterValue(queries, l) = HistCount(timings, l)

\* C17: in every state, and in every snapshot a scrape has been served, each
\* (kind, name) series of the operation counter has the value that the
\* timings histogram has as observation count under the same labels.
C17_CounterAndTimingsPaired ==
    /\ Paired(executedGraphQueriesTotalCounter, graphQLExecutionTimingsHistogram)
    /\ \A r \in Reqs :
          req[r].phase = "metrics" => Paired(req[r].body.queries, req[r].body.timings)

\* a scrape has been served a snapshot in which an operation is counted once
\* and timed once
C17_Witness ==
    \E r \in Reqs :
        /\ req[r].phase = "metrics"
        /\ \E l \in DOMAIN req[r].body.queries :
              /\ req[r].body.queries[l] = 1
              /\ req[r].body.timings[l].count = 1

\* C18: the completion of a request leaves every other request, its metadata
\* included, as it was, adds 1 to the counter series of the labels attached to
\* the completing request and nothing to the series of the labels another
\* request carries when they differ; and a step that changes the metadata of
\* one request changes the metadata of no other.
C18_MetadataBoundToRequest ==
    [][\A a \in Reqs :
        /\ Completes(a) =>
             /\ \A b \in Reqs \ {a} : req'[b] = req[b]
             /\ RecordedAs(a) # <<>> =>
                  CounterValue(executedGraphQueriesTotalCounter', RecordedAs(a)) =
                      CounterValue(executedGraphQueriesTotalCounter, RecordedAs(a)) + 1
             /\ \A b \in Reqs \ {a} :
                  (RecordedAs(b) # <<>> /\ RecordedAs(b) # RecordedAs(a)) =>
                      CounterValue(executedGraphQueriesTotalCounter', RecordedAs(b)) =
                          CounterValue(executedGraphQueriesTotalCounter, RecordedAs(b))
        /\ req'[a].graphql # req[a].graphql =>
             \A b \in Reqs \ {a} : req'[b].graphql = req[b].graphql]_vars

\* the query GetThing has come in and completed, and is the only series, while
\* a request that carries the mutation GetThing was and still is in flight
C18_Witness ==
    \E a, b \in Reqs :
        /\ a \in Finished
        /\ RecordedAs(a) = <<"query", "GetThing">>
        /\ req[b].res = "open"
        /\ RecordedAs(b) = <<"mutation", "GetThing">>
        /\ req[b].start = 1000
        /\ req[a].start = 1007
        /\ executedGraphQueriesTotalCounter = (<<"query", "GetThing">> :> 1)


----------------------------------------------------------------------------
\* the labels of the metadata the last run of the hook attached to request r,
\* <<>> when the hook did not run or the operation it saw last has no name
LastAttached(r) ==
    IF hookRuns[r] = <<>> THEN <<>>
    ELSE LET g == hookRuns[r][Len(hookRuns[r])]
         IN  IF g.operation \in {NULL, ""} \/ g.name \in {NULL, ""} THEN <<>>
             ELSE <<g.operation, g.name>>

\* the finished requests whose last hook run attached the labels l
FinishedAs(l) == {r \in Finished : LastAttached(r) = l}

\* C19: every series of the operation counter, and the observation count of
\* every series of the timings histogram, is the number of finished requests
\* whose last hook run attached its labels: a request counts once, under the
\* labels attached last, however many times the hook ran for it, and not at
\* all under labels an earlier run attached.
C19_OncePerRequestLastLabels ==
    \A l \in GraphLabels \cup DOMAIN executedGraphQueriesTotalCounter
                          \cup DOMAIN graphQLExecutionTimingsHistogram :
        /\ CounterValue(executedGraphQueriesTotalCounter, l) = Cardinality(FinishedAs(l))
        /\ HistCount(graphQLExecutionTimingsHistogram, l) = Cardinality(FinishedAs(l))

\* the hook ran twice for a request, first for the mutation GetThing and then
\* for the query GetThing, and the finished request is counted once, as the query
C19_Witness ==
    \E r \in Finished :
        /\ hookRuns[r] = <<[name |-> "GetThing", operation |-> "mutation"],
                            [name |-> "GetThing", operation |-> "query"]>>
        /\ executedGraphQueriesTotalCounter = (<<"query", "GetThing">> :> 1)
        /\ DOMAIN graphQLExecutionTimingsHistogram = {<<"query", "GetThing">>}

====
